---- MODULE Spec2Model ----
(***************************************************************************)
(* Patient portal: form validation (forms.py) and the session / auth      *)
(* guard around the request handlers (routes.py).                          *)
(*                                                                         *)
(* Text values are sequences of one-character strings, so that strip(),   *)
(* lower(), len() and the regular expressions are computed character by   *)
(* character.  User-facing messages are TLA+ strings.                     *)
(***************************************************************************)
EXTENDS Integers, Sequences, FiniteSets, TLC

VARIABLES now, ticks, today, session, patients, nextId, flashes, response,
          req, hooked, formData, formErrors, formValid

vars == <<now, ticks, today, session, patients, nextId, flashes, response,
          req, hooked, formData, formErrors, formValid>>

(***************************************************************************)
(* Bounds of the model.                                                    *)
(***************************************************************************)
MaxTicks == 1
MaxPatients == 2
MaxDeviations == 2
MaxRun == 3

----------------------------------------------------------------------------
(***************************************************************************)
(* Characters and string primitives.                                       *)
(***************************************************************************)
UpperSeq == <<"A","B","C","D","E","F","G","H","I","J","K","L","M",
              "N","O","P","Q","R","S","T","U","V","W","X","Y","Z">>
LowerSeq == <<"a","b","c","d","e","f","g","h","i","j","k","l","m",
              "n","o","p","q","r","s","t","u","v","w","x","y","z">>
DigitSeq == <<"0","1","2","3","4","5","6","7","8","9">>

Range(s) == {s[i] : i \in DOMAIN s}

UpperCh == Range(UpperSeq)
LowerCh == Range(LowerSeq)
DigitCh == Range(DigitSeq)
LetterCh == UpperCh \cup LowerCh
SpaceCh == {" ", "\t", "\n", "\r"}
SpecialCh == {"!","@","#","$","%","^","&","*","(",")","_","+","-","=","[","]",
              "{","}",";","'",":","\"","\\","|",",",".","<",">","/","?"}

IndexOf(seq, c) == CHOOSE i \in DOMAIN seq : seq[i] = c

ToLower(c) == IF c \in UpperCh THEN LowerSeq[IndexOf(UpperSeq, c)] ELSE c

\* str.lower()
StrLower(s) == [i \in DOMAIN s |-> ToLower(s[i])]

RECURSIVE LStrip(_)
LStrip(s) == IF s # <<>> /\ Head(s) \in SpaceCh THEN LStrip(Tail(s)) ELSE s

RECURSIVE RStrip(_)
RStrip(s) == IF s # <<>> /\ s[Len(s)] \in SpaceCh
             THEN RStrip(SubSeq(s, 1, Len(s) - 1)) ELSE s

\* str.strip()
Strip(s) == RStrip(LStrip(s))

AllIn(s, class) == \A i \in DOMAIN s : s[i] \in class

\* re.search(r"[class]", s)
HasCh(s, class) == \E i \in DOMAIN s : s[i] \in class

\* re.sub(r'\D', '', s)
DigitsOnly(s) == SelectSeq(s, LAMBDA c : c \in DigitCh)

\* Python's '$' matches at the end and just before a trailing newline.
DollarEnds(s) == {Len(s)} \cup (IF s # <<>> /\ s[Len(s)] = "\n" THEN {Len(s) - 1} ELSE {})

Rep(c, n) == [i \in 1..n |-> c]

None == "None"

----------------------------------------------------------------------------
(***************************************************************************)
(* forms.py: FormValidator.  Each validator returns None or one message.   *)
(***************************************************************************)

\* ^[a-zA-Z0-9._%+-]+@[a-zA-Z0-9.-]+\.[a-zA-Z]{2,}$ under re.match
EmailLocalCh == LetterCh \cup DigitCh \cup {".", "_", "%", "+", "-"}
EmailDomainCh == LetterCh \cup DigitCh \cup {".", "-"}

EmailMatches(s) ==
    \E e \in DollarEnds(s) : \E i \in 2..e : \E j \in (i + 2)..e :
        /\ s[i] = "@"
        /\ AllIn(SubSeq(s, 1, i - 1), EmailLocalCh)
        /\ AllIn(SubSeq(s, i + 1, j - 1), EmailDomainCh)
        /\ s[j] = "."
        /\ e - j >= 2
        /\ AllIn(SubSeq(s, j + 1, e), LetterCh)

validate_email(email) ==
    IF email = <<>> THEN "Email is required"
    ELSE IF ~EmailMatches(email) THEN "Please enter a valid email address"
    ELSE None

validate_phone(phone) ==
    IF phone = <<>> THEN "Phone number is required"
    ELSE LET digits_only == DigitsOnly(phone) IN
         IF Len(digits_only) < 10 THEN "Phone number must be at least 10 digits"
         ELSE IF Len(digits_only) > 15 THEN "Phone number is too long"
         ELSE None

\* validate_password testing for a digit before testing for a lowercase letter.
validate_password_digit_before_lowercase(password) ==
    IF password = <<>> THEN "Password is required"
    ELSE IF Len(password) < 8 THEN "Password must be at least 8 characters long"
    ELSE IF ~HasCh(password, UpperCh)
         THEN "Password must contain at least one uppercase letter"
    ELSE IF ~HasCh(password, DigitCh)
         THEN "Password must contain at least one number"
    ELSE IF ~HasCh(password, LowerCh)
         THEN "Password must contain at least one lowercase letter"
    ELSE IF ~HasCh(password, SpecialCh)
         THEN "Password must contain at least one special character (!@#$%^&*)"
    ELSE None

validate_password(password) ==
    IF password = <<>> THEN "Password is required"
    ELSE IF Len(password) < 8 THEN "Password must be at least 8 characters long"
    ELSE IF ~HasCh(password, UpperCh)
         THEN "Password must contain at least one uppercase letter"
    ELSE IF ~HasCh(password, LowerCh)
         THEN "Password must contain at least one lowercase letter"
    ELSE IF ~HasCh(password, DigitCh)
         THEN "Password must contain at least one number"
    ELSE IF ~HasCh(password, SpecialCh)
         THEN "Password must contain at least one special character (!@#$%^&*)"
    ELSE None

\* Calendar dates are records [y, m, d].
IsLeap(y) == (y % 4 = 0 /\ y % 100 # 0) \/ y % 400 = 0

DaysInMonth(y, m) ==
    IF m = 2 THEN (IF IsLeap(y) THEN 29 ELSE 28)
    ELSE IF m \in {4, 6, 9, 11} THEN 30 ELSE 31

DigitVal(c) == IndexOf(DigitSeq, c) - 1

RECURSIVE DecVal(_)
DecVal(s) == IF s = <<>> THEN 0
             ELSE 10 * DecVal(SubSeq(s, 1, Len(s) - 1)) + DigitVal(s[Len(s)])

\* strptime's %m : 1[0-2]|0[1-9]|[1-9]
MonthField(s) ==
    \/ Len(s) = 2 /\ s[1] = "1" /\ s[2] \in {"0", "1", "2"}
    \/ Len(s) = 2 /\ s[1] = "0" /\ s[2] \in DigitCh \ {"0"}
    \/ Len(s) = 1 /\ s[1] \in DigitCh \ {"0"}

\* strptime's %d : 3[0-1]|[1-2]\d|0[1-9]|[1-9]| [1-9]
DayField(s) ==
    \/ Len(s) = 2 /\ s[1] = "3" /\ s[2] \in {"0", "1"}
    \/ Len(s) = 2 /\ s[1] \in {"1", "2"} /\ s[2] \in DigitCh
    \/ Len(s) = 2 /\ s[1] \in {"0", " "} /\ s[2] \in DigitCh \ {"0"}
    \/ Len(s) = 1 /\ s[1] \in DigitCh \ {"0"}

ValueError == [err |-> "ValueError"]

\* datetime.strptime(dob_str, '%Y-%m-%d').date()
ParseDate(s) ==
    IF \E j \in 7..(Len(s) - 1) :
          /\ AllIn(SubSeq(s, 1, 4), DigitCh)
          /\ s[5] = "-"
          /\ MonthField(SubSeq(s, 6, j - 1))
          /\ s[j] = "-"
          /\ DayField(SubSeq(s, j + 1, Len(s)))
    THEN LET j == CHOOSE k \in 7..(Len(s) - 1) :
                     s[k] = "-" /\ MonthField(SubSeq(s, 6, k - 1))
                                /\ DayField(SubSeq(s, k + 1, Len(s)))
             y == DecVal(SubSeq(s, 1, 4))
             m == DecVal(SubSeq(s, 6, j - 1))
             d == DecVal(LStrip(SubSeq(s, j + 1, Len(s))))
         IN IF y >= 1 /\ d <= DaysInMonth(y, m)
            THEN [y |-> y, m |-> m, d |-> d]
            ELSE ValueError
    ELSE ValueError

\* tuple comparison (a.month, a.day) < (b.month, b.day)
MonthDayBefore(a, b) == a.m < b.m \/ (a.m = b.m /\ a.d < b.d)

\* date comparison a > b
DateAfter(a, b) == a.y > b.y \/ (a.y = b.y /\ MonthDayBefore(b, a))

\* Age taking a year off on the birthday itself as well.
Age_counting_birthday_as_earlier(dob, tod) ==
    tod.y - dob.y
    - (IF MonthDayBefore(tod, dob) \/ (tod.m = dob.m /\ tod.d = dob.d) THEN 1 ELSE 0)

Age(dob, tod) == tod.y - dob.y - (IF MonthDayBefore(tod, dob) THEN 1 ELSE 0)

validate_date_of_birth(dob_str, tod) ==
    IF dob_str = <<>> THEN "Date of birth is required"
    ELSE LET dob == ParseDate(dob_str) IN
         IF dob = ValueError THEN "Please enter a valid date in YYYY-MM-DD format"
         ELSE IF DateAfter(dob, tod) THEN "Date of birth cannot be in the future"
         ELSE IF Age(dob, tod) < 13 THEN "Patient must be at least 13 years old"
         ELSE IF Age(dob, tod) > 120 THEN "Please enter a valid date of birth"
         ELSE None

\* ^[a-zA-Z\s\-']+$ under re.match
NameCh == LetterCh \cup SpaceCh \cup {"-", "'"}

\* field_name is the label's text; messages are label \o suffix.
validate_name(name, field_name) ==
    IF name = <<>> THEN field_name \o " is required"
    ELSE IF Len(Strip(name)) < 2
         THEN field_name \o " must be at least 2 characters long"
    ELSE IF Len(Strip(name)) > 50
         THEN field_name \o " must be less than 50 characters"
    ELSE IF ~AllIn(name, NameCh)
         THEN field_name \o " can only contain letters, spaces, hyphens, and apostrophes"
    ELSE None

valid_genders ==
    { <<"m","a","l","e">>, <<"f","e","m","a","l","e">>, <<"o","t","h","e","r">>,
      <<"p","r","e","f","e","r","_","n","o","t","_","t","o","_","s","a","y">> }

validate_gender(gender) ==
    IF gender = <<>> THEN "Gender is required"
    ELSE IF StrLower(gender) \notin valid_genders
         THEN "Please select a valid gender option"
    ELSE None

validate_address(address) ==
    IF address = <<>> THEN "Address is required"
    ELSE IF Len(Strip(address)) < 10 THEN "Please enter a complete address"
    ELSE IF Len(Strip(address)) > 200 THEN "Address is too long"
    ELSE None

----------------------------------------------------------------------------
(***************************************************************************)
(* forms.py: RegistrationForm and LoginForm.  A submission is a function   *)
(* from the field names it carries to their raw values.                    *)
(***************************************************************************)

required_fields ==
    << "first_name", "last_name", "email", "phone", "date_of_birth",
       "gender", "address", "emergency_contact_name", "emergency_contact_phone",
       "password", "confirm_password" >>

\* field.replace('_', ' ').title(), tabulated for the field names in use.
FieldTitle(field) ==
    CASE field = "first_name" -> "First Name"
      [] field = "last_name" -> "Last Name"
      [] field = "email" -> "Email"
      [] field = "phone" -> "Phone"
      [] field = "date_of_birth" -> "Date Of Birth"
      [] field = "gender" -> "Gender"
      [] field = "address" -> "Address"
      [] field = "emergency_contact_name" -> "Emergency Contact Name"
      [] field = "emergency_contact_phone" -> "Emergency Contact Phone"
      [] field = "password" -> "Password"
      [] field = "confirm_password" -> "Confirm Password"

\* field not in data or not data[field] or str(data[field]).strip() == ''
IsMissing(data, field) ==
    \/ field \notin DOMAIN data
    \/ data[field] = <<>>
    \/ Strip(data[field]) = <<>>

\* validate_required_fields returning at the first missing field.
RECURSIVE validate_required_fields_first_only(_, _)
validate_required_fields_first_only(data, fields) ==
    IF fields = <<>> THEN <<>>
    ELSE IF IsMissing(data, Head(fields))
         THEN << FieldTitle(Head(fields)) \o " is required" >>
         ELSE validate_required_fields_first_only(data, Tail(fields))

RECURSIVE validate_required_fields(_, _)
validate_required_fields(data, fields) ==
    IF fields = <<>> THEN <<>>
    ELSE (IF IsMissing(data, Head(fields))
          THEN << FieldTitle(Head(fields)) \o " is required" >> ELSE <<>>)
         \o validate_required_fields(data, Tail(fields))

\* error.lower() on the messages validate_phone returns
PhoneMsgLower(error) ==
    CASE error = "Phone number is required" -> "phone number is required"
      [] error = "Phone number must be at least 10 digits"
            -> "phone number must be at least 10 digits"
      [] error = "Phone number is too long" -> "phone number is too long"

\* if error: self.errors.append(error) -- what one check adds to the list
Appended(error) == IF error # None THEN << error >> ELSE <<>>

RegistrationFormValidate(data, tod) ==
    LET has(f) == f \in DOMAIN data
        e0 == validate_required_fields(data, required_fields)
        e1 == e0 \o (IF has("first_name")
                     THEN Appended(validate_name(data["first_name"], "First name"))
                     ELSE <<>>)
        e2 == e1 \o (IF has("last_name")
                     THEN Appended(validate_name(data["last_name"], "Last name"))
                     ELSE <<>>)
        e3 == e2 \o (IF has("email")
                     THEN Appended(validate_email(data["email"])) ELSE <<>>)
        e4 == e3 \o (IF has("phone")
                     THEN Appended(validate_phone(data["phone"])) ELSE <<>>)
        e5 == e4 \o (IF has("date_of_birth")
                     THEN Appended(validate_date_of_birth(data["date_of_birth"], tod))
                     ELSE <<>>)
        e6 == e5 \o (IF has("gender")
                     THEN Appended(validate_gender(data["gender"])) ELSE <<>>)
        e7 == e6 \o (IF has("address")
                     THEN Appended(validate_address(data["address"])) ELSE <<>>)
        e8 == e7 \o (IF has("emergency_contact_name")
                     THEN Appended(validate_name(data["emergency_contact_name"],
                                                 "Emergency contact name"))
                     ELSE <<>>)
        e9 == e8 \o (IF has("emergency_contact_phone")
                     THEN LET error == validate_phone(data["emergency_contact_phone"]) IN
                          IF error # None
                          THEN << "Emergency contact " \o PhoneMsgLower(error) >>
                          ELSE <<>>
                     ELSE <<>>)
        e10 == e9 \o (IF has("password")
                      THEN Appended(validate_password(data["password"])) ELSE <<>>)
        e11 == e10 \o (IF /\ has("password") /\ has("confirm_password")
                          /\ data["password"] # data["confirm_password"]
                       THEN << "Passwords do not match" >> ELSE <<>>)
    IN [valid |-> Len(e11) = 0, errors |-> e11]

\* LoginForm.validate also running the Password validator on a present password.
LoginFormValidate_with_strength(data) ==
    LET get(f) == IF f \in DOMAIN data THEN data[f] ELSE <<>>
        e1 == IF get("email") = <<>> THEN << "Email is required" >>
              ELSE Appended(validate_email(data["email"]))
        e2 == e1 \o (IF get("password") = <<>> THEN << "Password is required" >>
                     ELSE Appended(validate_password(data["password"])))
    IN [valid |-> Len(e2) = 0, errors |-> e2]

LoginFormValidate(data) ==
    LET get(f) == IF f \in DOMAIN data THEN data[f] ELSE <<>>
        e1 == IF get("email") = <<>> THEN << "Email is required" >>
              ELSE Appended(validate_email(data["email"]))
        e2 == e1 \o (IF get("password") = <<>> THEN << "Password is required" >>
                     ELSE <<>>)
    IN [valid |-> Len(e2) = 0, errors |-> e2]

----------------------------------------------------------------------------
(***************************************************************************)
(* Clock and datetime.  A datetime is <<days, seconds of the day>>; its    *)
(* ISO text is <<days, hours, minutes, seconds>>.  None is <<>>.           *)
(***************************************************************************)
NoTime == <<>>

utcnow(t) == << t \div 86400, t % 86400 >>

isoformat(dt) == << dt[1], dt[2] \div 3600, (dt[2] % 3600) \div 60, dt[2] % 60 >>

fromisoformat(iso) == << iso[1], iso[2] * 3600 + iso[3] * 60 + iso[4] >>

\* (a - b).total_seconds()
total_seconds(a, b) == (a[1] - b[1]) * 86400 + (a[2] - b[2])

SessionTimeout == 1800

----------------------------------------------------------------------------
(***************************************************************************)
(* Session: a function from the keys it holds to their values.  Flashed    *)
(* messages are kept apart from it, as the list flashed by one request.    *)
(***************************************************************************)
EmptySession == [k \in {} |-> <<>>]

SessionSet(sess, key, value) ==
    [k \in DOMAIN sess \cup {key} |-> IF k = key THEN value ELSE sess[k]]

Redirect(endpoint) == << "redirect", endpoint >>
Render(template) == << "render", template >>
ServerError == << "error", "500.html" >>
Json == << "json", "health" >>
NoResponse == << >>

MsgExpired == "Your session has expired. Please log in again."
MsgPleaseLogIn == "Please log in to access this page."
MsgExists == "An account with this email already exists. Please use a different email or log in."
MsgRegistered == "Registration successful! Please log in with your credentials."
MsgRegisterFailed == "An error occurred during registration. Please try again."
MsgWelcome == "Welcome back, {first_name}!"
MsgDeactivated == "Your account has been deactivated. Please contact support."
MsgInvalidLogin == "Invalid email or password. Please try again."
MsgLoggedOut == "You have been logged out successfully."
MsgNotFound == "Account not found. Please log in again."
MsgProfileUpdated == "Profile updated successfully!"
MsgProfileFailed == "An error occurred while updating your profile. Please try again."
MsgAllRequired == "All password fields are required."
MsgCurrentWrong == "Current password is incorrect."
MsgNewMismatch == "New passwords do not match."
MsgPasswordChanged == "Password changed successfully!"
MsgPasswordFailed == "An error occurred while changing your password. Please try again."

\* check_session_timeout with the threshold compared by >= instead of >.
check_session_timeout_at_threshold(sess, t) ==
    IF "patient_id" \in DOMAIN sess
    THEN IF /\ "last_activity" \in DOMAIN sess
            /\ total_seconds(utcnow(t), fromisoformat(sess["last_activity"]))
                  >= SessionTimeout
         THEN [session |-> EmptySession, flashes |-> << MsgExpired >>,
               response |-> Redirect("login")]
         ELSE [session |-> SessionSet(sess, "last_activity", isoformat(utcnow(t))),
               flashes |-> <<>>, response |-> NoResponse]
    ELSE [session |-> sess, flashes |-> <<>>, response |-> NoResponse]

\* check_session_timeout dropping patient_id and last_activity on expiry
\* instead of clearing the session.
check_session_timeout_keeping_name(sess, t) ==
    IF "patient_id" \in DOMAIN sess
    THEN IF /\ "last_activity" \in DOMAIN sess
            /\ total_seconds(utcnow(t), fromisoformat(sess["last_activity"]))
                  > SessionTimeout
         THEN [session |-> [k \in DOMAIN sess \ {"patient_id", "last_activity"} |-> sess[k]],
               flashes |-> << MsgExpired >>, response |-> Redirect("login")]
         ELSE [session |-> SessionSet(sess, "last_activity", isoformat(utcnow(t))),
               flashes |-> <<>>, response |-> NoResponse]
    ELSE [session |-> sess, flashes |-> <<>>, response |-> NoResponse]

\* @app.before_request check_session_timeout: the session it leaves, what it
\* flashes, and the response it returns (NoResponse: the handler runs).
check_session_timeout(sess, t) ==
    IF "patient_id" \in DOMAIN sess
    THEN IF /\ "last_activity" \in DOMAIN sess
            /\ total_seconds(utcnow(t), fromisoformat(sess["last_activity"]))
                  > SessionTimeout
         THEN [session |-> EmptySession, flashes |-> << MsgExpired >>,
               response |-> Redirect("login")]
         ELSE [session |-> SessionSet(sess, "last_activity", isoformat(utcnow(t))),
               flashes |-> <<>>, response |-> NoResponse]
    ELSE [session |-> sess, flashes |-> <<>>, response |-> NoResponse]

----------------------------------------------------------------------------
(***************************************************************************)
(* Record store (models.Patient through SQLAlchemy): a function from the   *)
(* ids in use to records.  Of a record's columns the model keeps those the *)
(* handlers read back: email, password hash, active flag, the two names    *)
(* and last_login.                                                         *)
(***************************************************************************)
\* Patient.set_password / check_password: a salted hash, kept symbolic.
PasswordHash(password) == << "hash" >> \o password

check_password(patient, password) == patient.password_hash = PasswordHash(password)

\* Patient.full_name
full_name(patient) == patient.first_name \o << " " >> \o patient.last_name

\* Patient.query.filter_by(email=email).first()
HasEmail(store, email) == \E id \in DOMAIN store : store[id].email = email

FindByEmail(store, email) == CHOOSE id \in DOMAIN store : store[id].email = email

\* The unique constraint on Patient.email: the commit of an insert fails on it.
UniqueViolation(store, patient) == HasEmail(store, patient.email)

\* What a handler leaves behind.
Outcome(sess, store, nid, msgs, resp) ==
    [session |-> sess, patients |-> store, nextId |-> nid,
     flashes |-> msgs, response |-> resp]

----------------------------------------------------------------------------
(***************************************************************************)
(* routes.py: the handlers.  Each takes the session as the before_request  *)
(* hook left it and returns the Outcome of the request.  commitOk says     *)
(* whether the store accepts the handler's db.session.commit().            *)
(***************************************************************************)
LoggedIn(sess) == "patient_id" \in DOMAIN sess

index(sess, store, nid) ==
    IF LoggedIn(sess)
    THEN Outcome(sess, store, nid, <<>>, Redirect("dashboard"))
    ELSE Outcome(sess, store, nid, <<>>, Render("index.html"))

\* Patient(...) keeping the email as submitted, without strip().lower().
NewPatient_raw_email(form) ==
    [ email |-> form["email"],
      password_hash |-> PasswordHash(form["password"]),
      is_active |-> TRUE,
      first_name |-> Strip(form["first_name"]),
      last_name |-> Strip(form["last_name"]),
      last_login |-> NoTime ]

\* Patient(...) as register builds it from a validated form
NewPatient(form) ==
    [ email |-> StrLower(Strip(form["email"])),
      password_hash |-> PasswordHash(form["password"]),
      is_active |-> TRUE,
      first_name |-> Strip(form["first_name"]),
      last_name |-> Strip(form["last_name"]),
      last_login |-> NoTime ]

register(sess, store, nid, method, form, tod, commitOk) ==
    IF LoggedIn(sess)
    THEN Outcome(sess, store, nid, <<>>, Redirect("dashboard"))
    ELSE IF method = "POST"
    THEN LET v == RegistrationFormValidate(form, tod) IN
         IF v.valid
         THEN IF HasEmail(store, form["email"])
              THEN Outcome(sess, store, nid, << MsgExists >>, Render("register.html"))
              ELSE LET patient == NewPatient(form) IN
                   IF commitOk /\ ~UniqueViolation(store, patient)
                   THEN Outcome(sess,
                                [id \in DOMAIN store \cup {nid} |->
                                    IF id = nid THEN patient ELSE store[id]],
                                nid + 1, << MsgRegistered >>, Redirect("login"))
                   ELSE Outcome(sess, store, nid, << MsgRegisterFailed >>,
                                Render("register.html"))
         ELSE Outcome(sess, store, nid, v.errors, Render("register.html"))
    ELSE Outcome(sess, store, nid, <<>>, Render("register.html"))

\* authenticate testing is_active before the password.
authenticate_active_first(store, email, password) ==
    IF HasEmail(store, email)
    THEN IF ~store[FindByEmail(store, email)].is_active THEN "inactive"
         ELSE IF check_password(store[FindByEmail(store, email)], password) THEN "ok"
         ELSE "invalid"
    ELSE "invalid"

\* authenticate without the is_active test.
authenticate_ignoring_active(store, email, password) ==
    IF HasEmail(store, email)
       /\ check_password(store[FindByEmail(store, email)], password)
    THEN "ok"
    ELSE "invalid"

\* login's decision on a validated form: "ok" (password matches an active
\* record), "inactive" (matches a deactivated one) or "invalid".
authenticate(store, email, password) ==
    IF HasEmail(store, email)
       /\ check_password(store[FindByEmail(store, email)], password)
    THEN IF store[FindByEmail(store, email)].is_active THEN "ok" ELSE "inactive"
    ELSE "invalid"

\* the three session keys login sets
start_session(sess, id, patient, t) ==
    LET s1 == SessionSet(sess, "patient_id", id)
        s2 == SessionSet(s1, "patient_name", full_name(patient))
    IN SessionSet(s2, "last_activity", isoformat(utcnow(t)))

login(sess, store, nid, method, form, t, commitOk) ==
    IF LoggedIn(sess)
    THEN Outcome(sess, store, nid, <<>>, Redirect("dashboard"))
    ELSE IF method = "POST"
    THEN LET v == LoginFormValidate(form) IN
         IF v.valid
         THEN LET email == StrLower(Strip(form["email"]))
                  password == form["password"]
                  verdict == authenticate(store, email, password)
              IN
              IF verdict = "ok"
              THEN LET id == FindByEmail(store, email)
                       s3 == start_session(sess, id, store[id], t)
                   IN
                   IF commitOk
                   THEN Outcome(s3, [store EXCEPT ![id].last_login = utcnow(t)],
                                nid, << MsgWelcome >>, Redirect("dashboard"))
                   \* the commit raises out of login: the 500 handler rolls back
                   \* and its response carries the session as modified
                   ELSE Outcome(s3, store, nid, <<>>, ServerError)
              ELSE IF verdict = "inactive"
              THEN Outcome(sess, store, nid, << MsgDeactivated >>, Render("login.html"))
              ELSE Outcome(sess, store, nid, << MsgInvalidLogin >>, Render("login.html"))
         ELSE Outcome(sess, store, nid, v.errors, Render("login.html"))
    ELSE Outcome(sess, store, nid, <<>>, Render("login.html"))

\* logout popping the subject identifier instead of clearing the session.
logout_popping_patient_id(sess, store, nid) ==
    Outcome([k \in DOMAIN sess \ {"patient_id"} |-> sess[k]], store, nid,
            << MsgLoggedOut >>, Redirect("index"))

logout(sess, store, nid) ==
    Outcome(EmptySession, store, nid, << MsgLoggedOut >>, Redirect("index"))

\* login_required flashing without returning the redirect: the wrapped
\* handler runs and fails on session['patient_id'].
login_required_without_return(sess, store, nid) ==
    Outcome(sess, store, nid, << MsgPleaseLogIn >>, ServerError)

\* login_required's early return
login_required(sess, store, nid) ==
    Outcome(sess, store, nid, << MsgPleaseLogIn >>, Redirect("login"))

\* the "if not patient" branch without its session.clear().
account_not_found_keeping_session(sess, store, nid) ==
    Outcome(sess, store, nid, << MsgNotFound >>, Redirect("login"))

\* the "if not patient" branch of the protected handlers
account_not_found(sess, store, nid) ==
    Outcome(EmptySession, store, nid, << MsgNotFound >>, Redirect("login"))

dashboard(sess, store, nid) ==
    IF ~LoggedIn(sess) THEN login_required(sess, store, nid)
    ELSE IF sess["patient_id"] \notin DOMAIN store THEN account_not_found(sess, store, nid)
    ELSE Outcome(sess, store, nid, <<>>, Render("dashboard.html"))

ProfileFields == {"first_name", "last_name"}

profile(sess, store, nid, method, form, t, commitOk) ==
    IF ~LoggedIn(sess) THEN login_required(sess, store, nid)
    ELSE IF sess["patient_id"] \notin DOMAIN store THEN account_not_found(sess, store, nid)
    ELSE IF method = "POST"
    THEN LET id == sess["patient_id"] IN
         \* a field the form lacks raises inside the try, as a failed commit does
         IF ProfileFields \subseteq DOMAIN form /\ commitOk
         THEN LET patient == [store[id] EXCEPT
                                 !.first_name = Strip(form["first_name"]),
                                 !.last_name = Strip(form["last_name"])]
              IN Outcome(SessionSet(sess, "patient_name", full_name(patient)),
                         [store EXCEPT ![id] = patient], nid,
                         << MsgProfileUpdated >>, Render("profile.html"))
         ELSE Outcome(sess, store, nid, << MsgProfileFailed >>, Render("profile.html"))
    ELSE Outcome(sess, store, nid, <<>>, Render("profile.html"))

change_password(sess, store, nid, form, t, commitOk) ==
    IF ~LoggedIn(sess) THEN login_required(sess, store, nid)
    ELSE IF sess["patient_id"] \notin DOMAIN store THEN account_not_found(sess, store, nid)
    ELSE LET id == sess["patient_id"]
             get(f) == IF f \in DOMAIN form THEN form[f] ELSE <<>>
             current_password == get("current_password")
             new_password == get("new_password")
             confirm_password == get("confirm_password")
         IN
         IF current_password = <<>> \/ new_password = <<>> \/ confirm_password = <<>>
         THEN Outcome(sess, store, nid, << MsgAllRequired >>, Redirect("profile"))
         ELSE IF ~check_password(store[id], current_password)
         THEN Outcome(sess, store, nid, << MsgCurrentWrong >>, Redirect("profile"))
         ELSE IF new_password # confirm_password
         THEN Outcome(sess, store, nid, << MsgNewMismatch >>, Redirect("profile"))
         ELSE IF validate_password(new_password) # None
         THEN Outcome(sess, store, nid, << validate_password(new_password) >>,
                      Redirect("profile"))
         ELSE IF commitOk
         THEN Outcome(sess,
                      [store EXCEPT ![id].password_hash = PasswordHash(new_password)],
                      nid, << MsgPasswordChanged >>, Redirect("profile"))
         ELSE Outcome(sess, store, nid, << MsgPasswordFailed >>, Redirect("profile"))

health_check(sess, store, nid) == Outcome(sess, store, nid, <<>>, Json)

----------------------------------------------------------------------------
(***************************************************************************)
(* Inputs.                                                                 *)
(***************************************************************************)
EmailA == << "a", "@", "b", ".", "c", "o" >>
\* passes the Email validator; strip().lower() turns it into EmailA
EmailAVariant == << "A", "@", "B", ".", "c", "o", "\n" >>
EmailC == << "c", "@", "d", ".", "i", "o" >>
EmailBad == << "a", "@", "b" >>

PasswordP == << "P", "a", "s", "s", "w", "0", "r", "d", "!" >>
PasswordQ == << "L", "e", "t", "m", "e", "1", "n", "#", "x" >>
PasswordWeak == << "s", "h", "o", "r", "t", "1", "!" >>

NameAl == << "A", "l" >>
NameBo == << "B", "o" >>

PhoneOk == << "5","5","5","-","1","2","3","-","4","5","6","7" >>
DobOk == << "2","0","0","0","-","0","1","-","3","1" >>
GenderOk == << "O", "t", "h", "e", "r" >>
AddressOk == << "1", "2", " ", "E", "l", "m", " ", "R", "o", "a", "d" >>

Today == [y |-> 2024, m |-> 6, d |-> 15]

\* A registration that passes every check.
ValidRegistration ==
    [ first_name |-> NameAl, last_name |-> NameBo, email |-> EmailA,
      phone |-> PhoneOk, date_of_birth |-> DobOk, gender |-> GenderOk,
      address |-> AddressOk, emergency_contact_name |-> NameBo,
      emergency_contact_phone |-> PhoneOk,
      password |-> PasswordP, confirm_password |-> PasswordP ]

Restrict(f, keys) == [k \in keys |-> f[k]]

EmptyForm == [k \in {} |-> <<>>]

\* Forms the requests of the main specification carry.
RegisterForms ==
    { [ValidRegistration EXCEPT !.email = e] :
          e \in {EmailA, EmailAVariant, EmailC} }
    \cup { [ValidRegistration EXCEPT !.confirm_password = PasswordQ] }

LoginForms ==
    { Restrict([email |-> e, password |-> pw], keys) :
          e \in {EmailAVariant, EmailBad},
          pw \in {PasswordP, PasswordQ},
          keys \in {{"email", "password"}, {"email"}} }

ProfileForms ==
    { [first_name |-> NameBo \o << " " >>, last_name |-> NameBo],
      [first_name |-> NameAl] }

ChangePasswordForm(current, new, confirm) ==
    [current_password |-> current, new_password |-> new, confirm_password |-> confirm]

ChangePasswordForms ==
    { ChangePasswordForm(PasswordP, PasswordQ, PasswordQ),
      ChangePasswordForm(PasswordQ, PasswordQ, PasswordQ),
      ChangePasswordForm(PasswordP, PasswordQ, PasswordWeak),
      ChangePasswordForm(PasswordP, PasswordWeak, PasswordWeak),
      [current_password |-> PasswordP, new_password |-> PasswordQ] }

TickSteps == {1800, 1801}

----------------------------------------------------------------------------
(***************************************************************************)
(* State machine.  req names the step just taken and what it carried;      *)
(* hooked is the session as the before_request hook left it.               *)
(***************************************************************************)
Req(op, method, form, commitOk) ==
    [op |-> op, method |-> method, form |-> form, commit |-> commitOk]

Init ==
    /\ now = 86000
    /\ ticks = 0
    /\ today = Today
    /\ session = EmptySession
    /\ patients = [id \in {} |-> <<>>]
    /\ nextId = 1
    /\ flashes = <<>>
    /\ response = NoResponse
    /\ req = Req("start", "", EmptyForm, TRUE)
    /\ hooked = EmptySession
    /\ formData = EmptyForm
    /\ formErrors = <<>>
    /\ formValid = <<>>

\* One request: the before_request hook, then (unless the hook answered) the handler.
Serve(r, pre, out) ==
    LET o == IF pre.response # NoResponse
             THEN Outcome(pre.session, patients, nextId, pre.flashes, pre.response)
             ELSE out
    IN /\ req' = r
       /\ hooked' = pre.session
       /\ session' = o.session
       /\ patients' = o.patients
       /\ nextId' = o.nextId
       /\ flashes' = o.flashes
       /\ response' = o.response

\* What no request touches.
RequestFrame == UNCHANGED <<now, ticks, today, formData, formErrors, formValid>>

\* One request with a form: GET carries none.  A failing store is told apart
\* from a working one only by a request that commits, so the store refuses
\* (commitOk = FALSE) only where the handler's outcome depends on it.
Submit(op, method, form, pre, accepted, refused) ==
    \/ Serve(Req(op, method, form, TRUE), pre, accepted)
    \/ /\ pre.response = NoResponse
       /\ accepted # refused
       /\ Serve(Req(op, method, form, FALSE), pre, refused)

FormsOf(method, forms) == IF method = "POST" THEN forms ELSE {EmptyForm}

Index ==
    LET pre == check_session_timeout(session, now) IN
    /\ Serve(Req("index", "GET", EmptyForm, TRUE), pre,
             index(pre.session, patients, nextId))
    /\ RequestFrame

Register ==
    \E method \in {"GET", "POST"} : \E form \in FormsOf(method, RegisterForms) :
        LET pre == check_session_timeout(session, now)
            accepted == register(pre.session, patients, nextId, method, form, today, TRUE)
            refused == register(pre.session, patients, nextId, method, form, today, FALSE)
        IN /\ accepted.nextId <= MaxPatients + 1
           /\ Submit("register", method, form, pre, accepted, refused)
           /\ RequestFrame

Login ==
    \E method \in {"GET", "POST"} : \E form \in FormsOf(method, LoginForms) :
        LET pre == check_session_timeout(session, now)
            accepted == login(pre.session, patients, nextId, method, form, now, TRUE)
            refused == login(pre.session, patients, nextId, method, form, now, FALSE)
        IN /\ Submit("login", method, form, pre, accepted, refused)
           /\ RequestFrame

Logout ==
    LET pre == check_session_timeout(session, now) IN
    /\ Serve(Req("logout", "GET", EmptyForm, TRUE), pre,
             logout(pre.session, patients, nextId))
    /\ RequestFrame

Dashboard ==
    LET pre == check_session_timeout(session, now) IN
    /\ Serve(Req("dashboard", "GET", EmptyForm, TRUE), pre,
             dashboard(pre.session, patients, nextId))
    /\ RequestFrame

Profile ==
    \E method \in {"GET", "POST"} : \E form \in FormsOf(method, ProfileForms) :
        LET pre == check_session_timeout(session, now)
            accepted == profile(pre.session, patients, nextId, method, form, now, TRUE)
            refused == profile(pre.session, patients, nextId, method, form, now, FALSE)
        IN /\ Submit("profile", method, form, pre, accepted, refused)
           /\ RequestFrame

ChangePassword ==
    \E form \in ChangePasswordForms :
        LET pre == check_session_timeout(session, now)
            accepted == change_password(pre.session, patients, nextId, form, now, TRUE)
            refused == change_password(pre.session, patients, nextId, form, now, FALSE)
        IN /\ Submit("change_password", "POST", form, pre, accepted, refused)
           /\ RequestFrame

HealthCheck ==
    LET pre == check_session_timeout(session, now) IN
    /\ Serve(Req("health", "GET", EmptyForm, TRUE), pre,
             health_check(pre.session, patients, nextId))
    /\ RequestFrame

\* A step that is no request leaves no response behind.
Quiet(op) ==
    /\ req' = Req(op, "", EmptyForm, TRUE)
    /\ hooked' = EmptySession
    /\ flashes' = <<>>
    /\ response' = NoResponse
    /\ UNCHANGED <<today, formData, formErrors, formValid>>

\* The clock moves between requests.
Tick ==
    /\ ticks < MaxTicks
    /\ \E d \in TickSteps : now' = now + d
    /\ ticks' = ticks + 1
    /\ Quiet("tick")
    /\ UNCHANGED <<session, patients, nextId>>

\* The store's operator clears a record's active flag.
Deactivate ==
    \E id \in DOMAIN patients :
        /\ patients[id].is_active
        /\ patients' = [patients EXCEPT ![id].is_active = FALSE]
        /\ Quiet("store")
        /\ UNCHANGED <<now, ticks, session, nextId>>

\* The record a session refers to leaves the store.
RemoveRecord ==
    \E id \in DOMAIN patients :
        /\ LoggedIn(session) /\ session["patient_id"] = id
        /\ patients' = [i \in DOMAIN patients \ {id} |-> patients[i]]
        /\ Quiet("store")
        /\ UNCHANGED <<now, ticks, session, nextId>>

Next ==
    \/ Index
    \/ Register
    \/ Login
    \/ Logout
    \/ Dashboard
    \/ Profile
    \/ ChangePassword
    \/ HealthCheck
    \/ Tick
    \/ Deactivate
    \/ RemoveRecord

Spec == Init /\ [][Next]_vars

----------------------------------------------------------------------------
(***************************************************************************)
(* The form validators on their own: a form object is built from a         *)
(* submission (errors = []), then validate() fills formErrors and returns  *)
(* formValid (<<>> while validate() has not returned).                     *)
(***************************************************************************)
Absent == << "absent" >>

NameAlternatives ==
    { Absent, <<>>, << " ", " " >>, << "A" >>, << "A", "1" >>, Rep("a", 51) }

PhoneAlternatives == { Absent, <<>>, << "1", "2", "3" >>, Rep("1", 16) }

Alternatives(field) ==
    CASE field \in {"first_name", "last_name", "emergency_contact_name"}
            -> NameAlternatives
      [] field \in {"phone", "emergency_contact_phone"} -> PhoneAlternatives
      [] field = "email" -> { Absent, <<>>, << " " >>, EmailBad, EmailAVariant }
      [] field = "date_of_birth"
            -> { Absent, <<>>,
                 << "2","0","0","0","-","1","3","-","0","1" >>,
                 << "2","0","3","0","-","0","1","-","0","1" >>,
                 << "2","0","2","0","-","0","1","-","0","1" >>,
                 << "1","9","0","0","-","0","1","-","0","1" >> }
      [] field = "gender" -> { Absent, <<>>, << "x" >> }
      [] field = "address"
            -> { Absent, <<>>, << "s", "h", "o", "r", "t" >>, Rep(" ", 12),
                 Rep("a", 201) }
      [] field = "password"
            -> { Absent, <<>>, PasswordWeak, PasswordQ,
                 << "a","l","l","l","o","w","e","r","c","a","s","e","1","!" >> }
      [] field = "confirm_password" -> { Absent, <<>>, << " " >>, PasswordQ }

AllAlternatives == UNION { Alternatives(f) : f \in DOMAIN ValidRegistration }

\* ValidRegistration with the fields of DOMAIN dev replaced (or left out).
Deviate(dev) ==
    [ f \in { g \in DOMAIN ValidRegistration : g \notin DOMAIN dev \/ dev[g] # Absent }
        |-> IF f \in DOMAIN dev THEN dev[f] ELSE ValidRegistration[f] ]

RegistrationSubmissions ==
    { Deviate(dev) :
        dev \in UNION { { d \in [D -> AllAlternatives] :
                              \A f \in D : d[f] \in Alternatives(f) } :
                        D \in { E \in SUBSET DOMAIN ValidRegistration :
                                    Cardinality(E) <= MaxDeviations } } }

LoginSubmissions ==
    { [ f \in { g \in {"email", "password"} : sub[g] # Absent } |-> sub[f] ] :
        sub \in [ email : { Absent, <<>>, << " " >>, EmailA, EmailAVariant, EmailBad },
                  password : { Absent, <<>>, << " " >>, PasswordP, PasswordWeak } ] }

\* form = RegistrationForm(request.form) / LoginForm(request.form)
NewForm(class, data) ==
    /\ req' = Req(class, "", EmptyForm, TRUE)
    /\ formData' = data
    /\ formErrors' = <<>>
    /\ formValid' = <<>>
    /\ UNCHANGED <<now, ticks, today, session, patients, nextId, flashes, response,
                   hooked>>

\* form.validate()
FormValidated(result) ==
    /\ formErrors' = result.errors
    /\ formValid' = << result.valid >>
    /\ UNCHANGED <<now, ticks, today, session, patients, nextId, flashes, response,
                   req, hooked, formData>>

NewRegistrationForm ==
    /\ req.op = "start"
    /\ \E data \in RegistrationSubmissions : NewForm("RegistrationForm", data)

RegistrationFormValidateCall ==
    /\ req.op = "RegistrationForm"
    /\ FormValidated(RegistrationFormValidate(formData, today))

NewLoginForm ==
    /\ req.op = "start"
    /\ \E data \in LoginSubmissions : NewForm("LoginForm", data)

LoginFormValidateCall ==
    /\ req.op = "LoginForm"
    /\ FormValidated(LoginFormValidate(formData))

NextForms ==
    \/ NewRegistrationForm
    \/ RegistrationFormValidateCall
    \/ NewLoginForm
    \/ LoginFormValidateCall

SpecForms == Init /\ [][NextForms]_vars

----------------------------------------------------------------------------
(***************************************************************************)
(* The field validators on their own: one call of a validator on one       *)
(* value.  formData holds the argument, formErrors the returned value in a *)
(* one-element sequence, formValid whether it was None.                    *)
(***************************************************************************)
PasswordShort == PasswordWeak
PasswordAllLower == << "a","l","l","l","o","w","e","r","c","a","s","e","1","!" >>
PasswordValid == << "V","a","l","i","d","P","a","s","s","1","!" >>

\* Runs of an uppercase letter, a lowercase letter, a digit, a special
\* character and a space, each of 0..MaxRun characters, and the reverse.
Reverse(s) == [i \in 1..Len(s) |-> s[Len(s) + 1 - i]]

PasswordRuns ==
    { Rep("Q", a) \o Rep("z", b) \o Rep("7", c) \o Rep("?", d) \o Rep(" ", e) :
        a \in 0..MaxRun, b \in 0..MaxRun, c \in 0..MaxRun, d \in 0..MaxRun,
        e \in 0..MaxRun }

PasswordInputs ==
    PasswordRuns \cup { Reverse(p) : p \in PasswordRuns }
    \cup { PasswordShort, PasswordAllLower, PasswordValid, PasswordP, PasswordQ }

\* Current dates: around the end of February in a leap year and after one,
\* mid-year, and around the turn of the year.
Todays ==
    { [y |-> 2024, m |-> 2, d |-> 28], [y |-> 2024, m |-> 2, d |-> 29],
      [y |-> 2024, m |-> 3, d |-> 1], Today, [y |-> 2024, m |-> 12, d |-> 31],
      [y |-> 2025, m |-> 1, d |-> 1], [y |-> 2025, m |-> 2, d |-> 28] }

\* n written with w decimal digits
Dec(n, w) == [i \in 1..w |-> DigitSeq[((n \div (10 ^ (w - i))) % 10) + 1]]

\* date.isoformat(): YYYY-MM-DD
DateStr(date) == Dec(date.y, 4) \o << "-" >> \o Dec(date.m, 2) \o << "-" >> \o Dec(date.d, 2)

YearsBack == { 121, 120, 14, 13, 12, 0, -1 }
DobMonths == { 1, 2, 3, 6, 12 }
DobDays == { 1, 2, 15, 16, 28, 29, 30, 31 }

\* Birth dates as text, calendar dates or not, in the years around the limits.
DobInputs(tod) ==
    { DateStr([y |-> tod.y - k, m |-> m, d |-> d]) :
        k \in YearsBack, m \in DobMonths, d \in DobDays }
    \cup { <<>>, << "2","0","1","1","-","3","-","1" >>,
           << "1","5","/","0","6","/","2","0","1","1" >>, DobOk }

InitValidators ==
    /\ now = 86000
    /\ ticks = 0
    /\ today \in Todays
    /\ session = EmptySession
    /\ patients = [id \in {} |-> <<>>]
    /\ nextId = 1
    /\ flashes = <<>>
    /\ response = NoResponse
    /\ req = Req("start", "", EmptyForm, TRUE)
    /\ hooked = EmptySession
    /\ formData = EmptyForm
    /\ formErrors = <<>>
    /\ formValid = <<>>

Returned(op, args, value) ==
    /\ req' = Req(op, "", EmptyForm, TRUE)
    /\ formData' = args
    /\ formErrors' = << value >>
    /\ formValid' = << value = None >>
    /\ UNCHANGED <<now, ticks, today, session, patients, nextId, flashes, response,
                   hooked>>

\* FormValidator.validate_password(password)
ValidatePasswordCall ==
    /\ req.op = "start"
    /\ \E password \in PasswordInputs :
          Returned("validate_password", [password |-> password],
                   validate_password(password))

\* FormValidator.validate_date_of_birth(dob_str), date.today() being today
ValidateDateOfBirthCall ==
    /\ req.op = "start"
    /\ \E dob_str \in DobInputs(today) :
          Returned("validate_date_of_birth", [date_of_birth |-> dob_str],
                   validate_date_of_birth(dob_str, today))

NextValidators ==
    \/ ValidatePasswordCall
    \/ ValidateDateOfBirthCall

SpecValidators == InitValidators /\ [][NextValidators]_vars

----------------------------------------------------------------------------
(***************************************************************************)
(* Claims.                                                                 *)
(***************************************************************************)
RequestOps ==
    {"index", "register", "login", "logout", "dashboard", "profile",
     "change_password", "health"}

ProtectedOps == {"dashboard", "profile", "change_password"}

SessionKeys == {"patient_id", "patient_name", "last_activity"}

\* Seconds since the epoch that an ISO text <<days, hours, minutes, seconds>> denotes.
IsoSeconds(iso) == iso[1] * 86400 + iso[2] * 3600 + iso[3] * 60 + iso[4]

\* C1: a request that arrives with a session holding a subject identifier and
\* a last-activity timestamp clears the session, flashes "session expired" and
\* redirects to login when more than 1800 seconds have passed since the last
\* activity; otherwise the timeout check leaves the session authenticated
\* with last activity set to the current time, and so does the request unless
\* its handler is logout or the subject's record is gone.
C1_SessionTimeout ==
    [][ ( /\ req'.op \in RequestOps
          /\ "patient_id" \in DOMAIN session
          /\ "last_activity" \in DOMAIN session )
        => IF now - IsoSeconds(session["last_activity"]) > 1800
           THEN /\ session' = EmptySession
                /\ flashes' = << MsgExpired >>
                /\ response' = Redirect("login")
                /\ patients' = patients
           ELSE /\ "patient_id" \in DOMAIN hooked'
                /\ hooked'["patient_id"] = session["patient_id"]
                /\ IsoSeconds(hooked'["last_activity"]) = now
                /\ MsgExpired \notin Range(flashes')
                /\ ( req'.op # "logout" /\ session["patient_id"] \in DOMAIN patients
                     => /\ "patient_id" \in DOMAIN session'
                        /\ session'["patient_id"] = session["patient_id"]
                        /\ IsoSeconds(session'["last_activity"]) = now )
      ]_vars

\* C1 witness: a request made exactly 1800 seconds after the login kept the
\* session and refreshed its last activity.
C1_Witness ==
    /\ req.op = "dashboard"
    /\ "patient_id" \in DOMAIN session
    /\ session["patient_id"] \in DOMAIN patients
    /\ patients[session["patient_id"]].last_login # NoTime
    /\ now - IsoSeconds(isoformat(patients[session["patient_id"]].last_login)) = 1800
    /\ IsoSeconds(session["last_activity"]) = now

\* A request made 1801 seconds after the last activity found the session expired.
C1_Expired ==
    /\ req.op \in RequestOps
    /\ session = EmptySession
    /\ flashes = << MsgExpired >>
    /\ response = Redirect("login")

\* C2: the session goes from holding no subject identifier to holding one
\* only in a POST to login whose form validates, whose password matches the
\* record with that email and whose record is active; the session then
\* holds exactly that record's id, its display name and the current time.
C2_LoginOnly ==
    [][ ( "patient_id" \notin DOMAIN session /\ "patient_id" \in DOMAIN session' )
        => /\ req'.op = "login"
           /\ req'.method = "POST"
           /\ LoginFormValidate(req'.form).valid
           /\ \E id \in DOMAIN patients :
                 /\ patients[id].email = StrLower(Strip(req'.form["email"]))
                 /\ patients[id].password_hash = PasswordHash(req'.form["password"])
                 /\ patients[id].is_active
                 /\ DOMAIN session' = SessionKeys
                 /\ session'["patient_id"] = id
                 /\ session'["patient_name"]
                        = patients[id].first_name \o << " " >> \o patients[id].last_name
                 /\ IsoSeconds(session'["last_activity"]) = now
      ]_vars

\* C2 witness: a login has just authenticated the session.
C2_Witness ==
    /\ req.op = "login"
    /\ "patient_id" \in DOMAIN session
    /\ response = Redirect("dashboard")

\* C3: a request for dashboard, profile or change-password whose session
\* holds no subject identifier changes neither the store nor the session and
\* is answered by the "please log in" redirect to login.
C3_LoginRequired ==
    [][ ( req'.op \in ProtectedOps /\ "patient_id" \notin DOMAIN session )
        => /\ patients' = patients
           /\ nextId' = nextId
           /\ session' = session
           /\ flashes' = << MsgPleaseLogIn >>
           /\ response' = Redirect("login")
      ]_vars

\* C3 witness: change-password was refused at the gate.
C3_Witness ==
    /\ req.op = "change_password"
    /\ req.form = ChangePasswordForm(PasswordP, PasswordQ, PasswordQ)
    /\ "patient_id" \notin DOMAIN session
    /\ flashes = << MsgPleaseLogIn >>
    /\ response = Redirect("login")
    /\ DOMAIN patients # {}

C5_AccountNotFound ==
    [][ ( /\ req'.op \in ProtectedOps
          /\ "patient_id" \in DOMAIN hooked'
          /\ hooked'["patient_id"] \notin DOMAIN patients )
        => /\ session' = EmptySession
           /\ flashes' = << MsgNotFound >>
           /\ MsgNotFound # MsgExpired
           /\ response' = Redirect("login")
           /\ patients' = patients
           /\ nextId' = nextId
      ]_vars

\* C5 witness: change-password found its subject's record gone.
C5_Witness ==
    /\ req.op = "change_password"
    /\ "patient_id" \in DOMAIN hooked
    /\ hooked["patient_id"] \notin DOMAIN patients
    /\ session = EmptySession
    /\ flashes = << MsgNotFound >>

\* C6: a login POST that passes LoginForm validation flashes exactly the
\* generic "Invalid email or password" message when no record has the email
\* or the password does not match (active or not), and exactly the
\* deactivated-account message when the password matches an inactive record,
\* and only then; in these cases the session gets no subject identifier.
C6_LoginFailure ==
    [][ ( /\ req'.op = "login"
          /\ req'.method = "POST"
          /\ "patient_id" \notin DOMAIN session
          /\ LoginFormValidate(req'.form).valid )
        => LET email == StrLower(Strip(req'.form["email"]))
               matching == { id \in DOMAIN patients :
                               /\ patients[id].email = email
                               /\ patients[id].password_hash
                                     = PasswordHash(req'.form["password"]) }
               inactive == { id \in matching : ~patients[id].is_active }
           IN /\ matching = {}
                 => flashes' = << MsgInvalidLogin >> /\ "patient_id" \notin DOMAIN session'
              /\ inactive # {}
                 => flashes' = << MsgDeactivated >> /\ "patient_id" \notin DOMAIN session'
              /\ MsgDeactivated \in Range(flashes') => inactive # {}
              /\ MsgInvalidLogin \in Range(flashes') => matching = {}
      ]_vars

\* C6 witness: a wrong password for a deactivated account got the generic message.
C6_Witness ==
    /\ req.op = "login"
    /\ flashes = << MsgInvalidLogin >>
    /\ \E id \in DOMAIN patients :
          /\ patients[id].email = StrLower(Strip(req.form["email"]))
          /\ ~patients[id].is_active
          /\ patients[id].password_hash # PasswordHash(req.form["password"])

\* The right password for a deactivated account got the deactivated message.
C6_Deactivated ==
    /\ req.op = "login"
    /\ flashes = << MsgDeactivated >>
    /\ "patient_id" \notin DOMAIN session

WritingOps == {"register", "login", "profile", "change_password"}

FailureMessages == { MsgRegisterFailed, MsgProfileFailed, MsgPasswordFailed }

\* C7: when the store refuses the commit of register, login, profile or
\* change-password, the handler itself catches it: the store is as before,
\* the response is the handler's own (not the 500 page) with one generic
\* failure message, and a login leaves the session without a subject.
C7_WriteFailureContained ==
    [][ ( req'.op \in WritingOps /\ ~req'.commit )
        => /\ patients' = patients
           /\ nextId' = nextId
           /\ response' # ServerError
           /\ Len(flashes') = 1
           /\ flashes'[1] \in FailureMessages
           /\ req'.op = "login" => "patient_id" \notin DOMAIN session'
      ]_vars

\* C8: a registration that validates and whose email, trimmed and
\* lower-cased, is already some record's email leaves the store as it was
\* and flashes one error message; and no two records share an email.
C8_DuplicateEmail ==
    /\ [] ( \A i, j \in DOMAIN patients : patients[i].email = patients[j].email => i = j )
    /\ [][ ( /\ req'.op = "register"
             /\ req'.method = "POST"
             /\ "patient_id" \notin DOMAIN session
             /\ RegistrationFormValidate(req'.form, today).valid
             /\ \E id \in DOMAIN patients :
                   patients[id].email = StrLower(Strip(req'.form["email"])) )
           => /\ patients' = patients
              /\ nextId' = nextId
              /\ flashes' \in { << MsgExists >>, << MsgRegisterFailed >> }
              /\ response' = Render("register.html")
         ]_vars

\* C8 witness: a registration whose email differs from a stored one only by
\* case and a trailing newline was turned down by the store's constraint,
\* with two records in the store.
C8_Witness ==
    /\ req.op = "register"
    /\ req.method = "POST"
    /\ req.commit
    /\ req.form["email"] = EmailAVariant
    /\ flashes = << MsgRegisterFailed >>
    /\ Cardinality(DOMAIN patients) = 2

\* The fields RegistrationForm.validate runs a validator on, in its order.
ValidatedFields ==
    << "first_name", "last_name", "email", "phone", "date_of_birth",
       "gender", "address", "emergency_contact_name", "emergency_contact_phone",
       "password" >>

\* Absent, empty or whitespace only.
Blank(data, field) == field \notin DOMAIN data \/ AllIn(data[field], SpaceCh)

\* The message a present field's validator gives in the registration form.
FieldError(data, field, tod) ==
    CASE field = "first_name" -> validate_name(data[field], "First name")
      [] field = "last_name" -> validate_name(data[field], "Last name")
      [] field = "email" -> validate_email(data[field])
      [] field = "phone" -> validate_phone(data[field])
      [] field = "date_of_birth" -> validate_date_of_birth(data[field], tod)
      [] field = "gender" -> validate_gender(data[field])
      [] field = "address" -> validate_address(data[field])
      [] field = "emergency_contact_name"
            -> validate_name(data[field], "Emergency contact name")
      [] field = "emergency_contact_phone"
            -> IF validate_phone(data[field]) = None THEN None
               ELSE "Emergency contact " \o PhoneMsgLower(validate_phone(data[field]))
      [] field = "password" -> validate_password(data[field])

ExpectedRegistrationErrors(data, tod) ==
    LET missing == SelectSeq(required_fields, LAMBDA f : Blank(data, f))
        failing == SelectSeq(ValidatedFields,
                             LAMBDA f : f \in DOMAIN data /\ FieldError(data, f, tod) # None)
    IN [i \in 1..Len(missing) |-> FieldTitle(missing[i]) \o " is required"]
       \o [i \in 1..Len(failing) |-> FieldError(data, failing[i], tod)]
       \o (IF /\ "password" \in DOMAIN data /\ "confirm_password" \in DOMAIN data
              /\ data["password"] # data["confirm_password"]
           THEN << "Passwords do not match" >> ELSE <<>>)

\* Every field passes its checks, but for a confirmation that differs.
OnlyConfirmationDiffers(data, tod) ==
    /\ \A i \in DOMAIN required_fields : ~Blank(data, required_fields[i])
    /\ \A i \in DOMAIN ValidatedFields : FieldError(data, ValidatedFields[i], tod) = None
    /\ data["confirm_password"] # data["password"]

\* C9: once RegistrationForm.validate() has returned, the error list is the
\* required-field errors of the eleven required fields in their order, then
\* the validator error of each present field in the validators' order, then
\* "Passwords do not match" if both passwords are present and differ; the
\* return value is TRUE iff the list is empty; and a submission valid but
\* for a differing confirmation has the one error "Passwords do not match".
C9_RegistrationErrors ==
    ( req.op = "RegistrationForm" /\ formValid # <<>> )
    => /\ formErrors = ExpectedRegistrationErrors(formData, today)
       /\ formValid = << Len(formErrors) = 0 >>
       /\ OnlyConfirmationDiffers(formData, today)
             => formErrors = << "Passwords do not match" >> /\ formValid = << FALSE >>

\* C9 witness: a valid submission with a differing confirmation was validated.
C9_Witness ==
    /\ req.op = "RegistrationForm"
    /\ formValid = << FALSE >>
    /\ formData = [ValidRegistration EXCEPT !.confirm_password = PasswordQ]
    /\ formErrors = << "Passwords do not match" >>

\* Two failing checks were both reported: a missing field and a bad phone.
C9_TwoErrors ==
    /\ req.op = "RegistrationForm"
    /\ formErrors = << "Gender is required", "Phone number must be at least 10 digits" >>

\* C10: once LoginForm.validate() has returned, the error list is "Email is
\* required" if the email is absent or empty and otherwise the Email
\* validator's error if any, followed by "Password is required" if the
\* password is absent or empty and by nothing for a present password; the
\* return value is TRUE iff the list is empty.
C10_LoginErrors ==
    ( req.op = "LoginForm" /\ formValid # <<>> )
    => LET noEmail == "email" \notin DOMAIN formData \/ formData["email"] = <<>>
           noPassword == "password" \notin DOMAIN formData \/ formData["password"] = <<>>
           emailErrors == IF noEmail THEN << "Email is required" >>
                          ELSE IF validate_email(formData["email"]) = None THEN <<>>
                          ELSE << validate_email(formData["email"]) >>
           passwordErrors == IF noPassword THEN << "Password is required" >> ELSE <<>>
       IN /\ formErrors = emailErrors \o passwordErrors
          /\ formValid = << Len(formErrors) = 0 >>

\* C10 witness: a login form with a valid email and a password the Password
\* validator would reject was found valid.
C10_Witness ==
    /\ req.op = "LoginForm"
    /\ formValid = << TRUE >>
    /\ formData["password"] = PasswordWeak
    /\ validate_password(formData["password"]) # None

\* Both login fields failed and both were reported.
C10_TwoErrors ==
    /\ req.op = "LoginForm"
    /\ formErrors = << "Please enter a valid email address", "Password is required" >>

PasswordMessages ==
    << "Password is required",
       "Password must be at least 8 characters long",
       "Password must contain at least one uppercase letter",
       "Password must contain at least one lowercase letter",
       "Password must contain at least one number",
       "Password must contain at least one special character (!@#$%^&*)" >>

\* The six checks in their fixed order: TRUE where the password violates one.
PasswordViolations(password) ==
    << Len(password) = 0,
       Len(password) < 8,
       \A i \in DOMAIN password : password[i] \notin UpperCh,
       \A i \in DOMAIN password : password[i] \notin LowerCh,
       \A i \in DOMAIN password : password[i] \notin DigitCh,
       \A i \in DOMAIN password : password[i] \notin SpecialCh >>

\* C11: the Password validator returns None or one message; the message is
\* that of the first violated check in the order empty, shorter than 8, no
\* uppercase letter, no lowercase letter, no digit, no special character; it
\* returns None iff the password is non-empty, has at least 8 characters and
\* holds a character of each of the four classes.
C11_PasswordFirstViolation ==
    req.op = "validate_password"
    => LET password == formData["password"]
           result == formErrors[1]
           violated == PasswordViolations(password)
           failing == { i \in 1..6 : violated[i] }
       IN /\ Len(formErrors) = 1
          /\ \A i \in failing :
                (\A j \in failing : i <= j) => result = PasswordMessages[i]
          /\ failing = {} => result = None
          /\ result = None
                <=> /\ password # <<>>
                    /\ Len(password) >= 8
                    /\ \E i \in DOMAIN password : password[i] \in UpperCh
                    /\ \E i \in DOMAIN password : password[i] \in LowerCh
                    /\ \E i \in DOMAIN password : password[i] \in DigitCh
                    /\ \E i \in DOMAIN password : password[i] \in SpecialCh
          /\ formValid = << result = None >>

\* C11 witness: a password of 8 characters or more with an uppercase letter
\* but neither a lowercase letter nor a digit got the lowercase message only.
C11_Witness ==
    /\ req.op = "validate_password"
    /\ Len(formData["password"]) >= 8
    /\ PasswordViolations(formData["password"])[4]
    /\ PasswordViolations(formData["password"])[5]
    /\ formErrors = << PasswordMessages[4] >>

\* A password passing all six checks was accepted.
C11_Accepted ==
    /\ req.op = "validate_password"
    /\ formData["password"] = PasswordValid
    /\ formErrors = << None >>

\* A date of the calendar.
IsDate(date) ==
    /\ date.y \in 1..9999
    /\ date.m \in 1..12
    /\ date.d \in 1..DaysInMonth(date.y, date.m)

\* The fields of a text of the form YYYY-MM-DD.
DateFields(str) ==
    [y |-> DecVal(SubSeq(str, 1, 4)), m |-> DecVal(SubSeq(str, 6, 7)),
     d |-> DecVal(SubSeq(str, 9, 10))]

WellFormedDate(str) ==
    /\ Len(str) = 10
    /\ \A i \in {1, 2, 3, 4, 6, 7, 9, 10} : str[i] \in DigitCh
    /\ str[5] = "-" /\ str[8] = "-"
    /\ IsDate(DateFields(str))

\* Dates in calendar order.
Ordinal(date) == date.y * 10000 + date.m * 100 + date.d

\* The day after a date.
NextDay(date) ==
    IF date.d < DaysInMonth(date.y, date.m) THEN [date EXCEPT !.d = date.d + 1]
    ELSE IF date.m < 12 THEN [date EXCEPT !.m = date.m + 1, !.d = 1]
    ELSE [y |-> date.y + 1, m |-> 1, d |-> 1]

\* Year difference, one less when today's (month, day) is earlier than the birth's.
AgeInYears(dob, tod) ==
    tod.y - dob.y - (IF tod.m * 100 + tod.d < dob.m * 100 + dob.d THEN 1 ELSE 0)

\* C12: for a well-formed date of birth and a current date, the Date-of-birth
\* validator gives "cannot be in the future" for a birth date strictly after
\* today; otherwise, with the age as the year difference less one when
\* today's (month, day) is earlier than the birth's, "must be at least 13
\* years old" for an age under 13, "enter a valid date of birth" for an age
\* above 120 and no error in between; a birth date exactly 13 years before
\* today is valid and the day after it is too young.
C12_DateOfBirthAge ==
    ( req.op = "validate_date_of_birth" /\ WellFormedDate(formData["date_of_birth"]) )
    => LET dob == DateFields(formData["date_of_birth"])
           age == AgeInYears(dob, today)
           thirteen == [y |-> today.y - 13, m |-> today.m, d |-> today.d]
           result == formErrors[1]
       IN /\ Ordinal(dob) > Ordinal(today)
                => result = "Date of birth cannot be in the future"
          /\ Ordinal(dob) <= Ordinal(today)
                => result = IF age < 13 THEN "Patient must be at least 13 years old"
                            ELSE IF age > 120 THEN "Please enter a valid date of birth"
                            ELSE None
          /\ dob = thirteen => result = None
          /\ IsDate(thirteen) /\ dob = NextDay(thirteen)
                => result = "Patient must be at least 13 years old"

\* C12 witness: the birth date one day after the date 13 years before today,
\* in the following year, was found too young.
C12_Witness ==
    /\ req.op = "validate_date_of_birth"
    /\ WellFormedDate(formData["date_of_birth"])
    /\ DateFields(formData["date_of_birth"])
         = NextDay([y |-> today.y - 13, m |-> today.m, d |-> today.d])
    /\ DateFields(formData["date_of_birth"]).y = today.y - 12
    /\ formErrors = << "Patient must be at least 13 years old" >>

\* A birth date exactly 13 years before today was accepted.
C12_Thirteen ==
    /\ req.op = "validate_date_of_birth"
    /\ formData["date_of_birth"]
         = DateStr([y |-> today.y - 13, m |-> today.m, d |-> today.d])
    /\ formErrors = << None >>

\* An age of 121 was refused.
C12_TooOld ==
    /\ req.op = "validate_date_of_birth"
    /\ WellFormedDate(formData["date_of_birth"])
    /\ AgeInYears(DateFields(formData["date_of_birth"]), today) = 121
    /\ formErrors = << "Please enter a valid date of birth" >>

\* A birth date after today was refused.
C12_Future ==
    /\ req.op = "validate_date_of_birth"
    /\ WellFormedDate(formData["date_of_birth"])
    /\ Ordinal(DateFields(formData["date_of_birth"])) > Ordinal(today)
    /\ formErrors = << "Date of birth cannot be in the future" >>

\* C13: after every request the session holds its three keys together or
\* none of them: patient_id is present iff last_activity is present iff
\* patient_name is present.
C13_SessionKeysTogether ==
    /\ "patient_id" \in DOMAIN session <=> "last_activity" \in DOMAIN session
    /\ "patient_id" \in DOMAIN session <=> "patient_name" \in DOMAIN session

\* C13 witness: a profile update has rewritten patient_name in a session
\* that holds the three keys.
C13_Witness ==
    /\ req.op = "profile" /\ req.method = "POST"
    /\ flashes = << MsgProfileUpdated >>
    /\ DOMAIN session = SessionKeys
    /\ session["patient_name"] = full_name(patients[session["patient_id"]])

\* The timeout check has emptied a session that held the three keys.
C13_TimedOut ==
    /\ req.op \in ProtectedOps
    /\ flashes = << MsgExpired >>
    /\ DOMAIN hooked = {}
    /\ DOMAIN session = {}

\* A login whose write failed left the three keys in the session.
C13_FailedLogin ==
    /\ req.op = "login" /\ response = ServerError
    /\ DOMAIN session = SessionKeys

====
